---- MODULE Spec2Model ----
(***************************************************************************)
(* Permission evaluation of safe-notion (src/src/permissions.ts) and the   *)
(* client wrapper that consults it (src/src/notion-client.ts).             *)
(*                                                                         *)
(* Resource ids are sequences of one-character strings, so that            *)
(* normalizeId (strip "-", lower-case) is computed and not assumed.        *)
(* The remote Notion workspace is a finite map from nodes to their kind    *)
(* and parent object; the hierarchy cache is the module-level Map of       *)
(* permissions.ts, threaded through every lookup in program order.         *)
(***************************************************************************)
EXTENDS Integers, Sequences, FiniteSets, TLC

VARIABLES
    remote,        \* the Notion workspace: node -> [kind, parent]
    props,         \* the Notion workspace: node -> page properties
    config,        \* NotionSafeClient.config: [rules, defaultPermission]
    parentCache,   \* permissions.ts parentCache: normalized id -> CacheEntry
    now,           \* Date.now()
    last,          \* the call that has just returned, or Idle
    pending        \* the getParentId calls suspended at an await

vars == <<remote, props, config, parentCache, now, last, pending>>

(***************************************************************************)
(* Bounds of the model and constants of the program.                       *)
(***************************************************************************)
NumNodes == 4          \* nodes of the workspace in Spec
MaxFail == 1           \* nodes whose retrievals may throw during one call
CACHE_TTL_MS == 600000
DefaultMaxDepth == 10

Null == <<>>               \* a null, undefined or empty id: all are falsy
Undefined == "undefined"   \* JavaScript undefined, where no id is expected
Idle == "idle"

(***************************************************************************)
(* Identifiers.                                                            *)
(***************************************************************************)
HexDigits == <<"0", "1", "2", "3", "4", "5", "6", "7", "8", "9",
               "a", "b", "c", "d", "e", "f">>

\* String.prototype.toLowerCase on one character
ToLowerCase(c) ==
    CASE c = "A" -> "a" [] c = "B" -> "b" [] c = "C" -> "c"
      [] c = "D" -> "d" [] c = "E" -> "e" [] c = "F" -> "f"
      [] OTHER -> c

ToUpperCase(c) ==
    CASE c = "a" -> "A" [] c = "b" -> "B" [] c = "c" -> "C"
      [] c = "d" -> "D" [] c = "e" -> "E" [] c = "f" -> "F"
      [] OTHER -> c

MapSeq(s, Op(_)) == [i \in 1..Len(s) |-> Op(s[i])]

\* const x = await e; ...: e is evaluated once, and what follows sees its
\* value.
Bind(e, Rest(_)) == CHOOSE r \in {Rest(x) : x \in {e}} : TRUE

IsHyphen(c) == c = "-"
NotHyphen(c) == ~IsHyphen(c)

\* id.replace(/-/g, "").toLowerCase()
normalizeId(id) == MapSeq(SelectSeq(id, NotHyphen), ToLowerCase)

idsMatch(id1, id2) == normalizeId(id1) = normalizeId(id2)

\* The three spellings of a node's id that reach the program: the
\* hyphenated lower-case form the Notion API prints, the bare form, and
\* the upper-case bare form a user may paste into a rule or a command.
CanonId(n) == <<"e", HexDigits[n + 1]>>
ApiId(n) == <<"e", "-", HexDigits[n + 1]>>
UpperId(n) == MapSeq(CanonId(n), ToUpperCase)

(***************************************************************************)
(* The Notion API as the program sees it.  A retrieval answers with the    *)
(* object's parent, or throws: when the id names no object of the probed   *)
(* kind, or when the request fails (fail: the nodes whose retrievals throw *)
(* during the current call).  The API accepts every spelling of an id and  *)
(* prints ids in the hyphenated lower-case form.                           *)
(***************************************************************************)
NoNode == 0 - 1

NodeOf(id) ==
    IF \E n \in DOMAIN remote : CanonId(n) = normalizeId(id)
    THEN CHOOSE n \in DOMAIN remote : CanonId(n) = normalizeId(id)
    ELSE NoNode

Thrown == [ok |-> FALSE, hasParent |-> FALSE,
           parent |-> [type |-> "none", id |-> Null, database_id |-> Null]]

Retrieve(fail, id, kind) ==
    LET n == NodeOf(id) IN
    IF n = NoNode \/ n \in fail \/ remote[n].kind # kind
    THEN Thrown
    ELSE [ok |-> TRUE, hasParent |-> TRUE, parent |-> remote[n].parent]

\* client.pages.retrieve({ page_id })
pagesRetrieve(fail, id) == Retrieve(fail, id, "page")
\* client.blocks.retrieve({ block_id })
blocksRetrieve(fail, id) == Retrieve(fail, id, "block")
\* client.databases.retrieve({ database_id })
databasesRetrieve(fail, id) == Retrieve(fail, id, "database")

(***************************************************************************)
(* getParentId: the decoding of each kind's parent object.                 *)
(***************************************************************************)
\* mutant: a page's block parent is decoded too
PageParentId_blockParent(parent) ==
    IF parent.type = "page_id" THEN parent.id
    ELSE IF parent.type = "database_id" THEN parent.id
    ELSE IF parent.type = "block_id" THEN parent.id
    ELSE IF parent.type = "data_source_id" /\ parent.database_id # Null
         THEN parent.database_id
    ELSE Null

PageParentId(parent) ==
    IF parent.type = "page_id" THEN parent.id
    ELSE IF parent.type = "database_id" THEN parent.id
    ELSE IF parent.type = "data_source_id" /\ parent.database_id # Null
         THEN parent.database_id
    ELSE Null

BlockParentId(parent) ==
    IF parent.type = "page_id" THEN parent.id
    ELSE IF parent.type = "database_id" THEN parent.id
    ELSE IF parent.type = "block_id" THEN parent.id
    ELSE Null

DatabaseParentId(parent) ==
    IF parent.type = "page_id" THEN parent.id ELSE Null

\* mutant: the innermost catch is missing, so that a resource none of the
\* three retrievals finds leaves the cascade as an exception
ProbeParent_uncaught(fail, resourceId) ==
    LET page == pagesRetrieve(fail, resourceId)
        block == blocksRetrieve(fail, resourceId)
        db == databasesRetrieve(fail, resourceId)
    IN  IF page.ok
        THEN [value |-> PageParentId(page.parent), probes |-> 1, threw |-> FALSE,
              kinds |-> <<"page">>]
        ELSE IF block.ok
        THEN [value |-> BlockParentId(block.parent), probes |-> 2, threw |-> FALSE,
              kinds |-> <<"page", "block">>]
        ELSE IF db.ok
        THEN [value |-> DatabaseParentId(db.parent), probes |-> 3, threw |-> FALSE,
              kinds |-> <<"page", "block", "database">>]
        ELSE [value |-> Null, probes |-> 3, threw |-> TRUE,
              kinds |-> <<"page", "block", "database">>]

\* mutant: the block retrieval is tried before the page retrieval
ProbeParent_blockFirst(fail, resourceId) ==
    LET page == pagesRetrieve(fail, resourceId)
        block == blocksRetrieve(fail, resourceId)
        db == databasesRetrieve(fail, resourceId)
    IN  IF block.ok
        THEN [value |-> BlockParentId(block.parent), probes |-> 1, threw |-> FALSE,
              kinds |-> <<"block">>]
        ELSE IF page.ok
        THEN [value |-> PageParentId(page.parent), probes |-> 2, threw |-> FALSE,
              kinds |-> <<"block", "page">>]
        ELSE IF db.ok
        THEN [value |-> DatabaseParentId(db.parent), probes |-> 3, threw |-> FALSE,
              kinds |-> <<"block", "page", "database">>]
        ELSE [value |-> Null, probes |-> 3, threw |-> FALSE,
              kinds |-> <<"block", "page", "database">>]

\* The try/catch cascade of getParentId on a cache miss: page, then block,
\* then database; value is what the lookup caches and returns, kinds the
\* retrievals issued, in order.  A retrieval
\* that throws is caught by the catch around it; threw tells whether an
\* exception leaves the cascade, and every caller passes it on as await does.
ProbeParent(fail, resourceId) ==
    LET page == pagesRetrieve(fail, resourceId)
        block == blocksRetrieve(fail, resourceId)
        db == databasesRetrieve(fail, resourceId)
    IN  IF page.ok
        THEN [value |-> IF page.hasParent THEN PageParentId(page.parent) ELSE Null,
              probes |-> 1, threw |-> FALSE, kinds |-> <<"page">>]
        ELSE IF block.ok
        THEN [value |-> IF block.hasParent THEN BlockParentId(block.parent) ELSE Null,
              probes |-> 2, threw |-> FALSE, kinds |-> <<"page", "block">>]
        ELSE IF db.ok
        THEN [value |-> IF db.hasParent THEN DatabaseParentId(db.parent) ELSE Null,
              probes |-> 3, threw |-> FALSE,
              kinds |-> <<"page", "block", "database">>]
        ELSE [value |-> Null, probes |-> 3, threw |-> FALSE,
              kinds |-> <<"page", "block", "database">>]

\* mutant: the entry is stored without the parent found
CacheSet_noValue(cache, key, entry) ==
    [k \in DOMAIN cache \cup {key} |->
        IF k = key THEN [value |-> Null, expiresAt |-> entry.expiresAt]
        ELSE cache[k]]

\* parentCache.set(key, entry)
CacheSet(cache, key, entry) ==
    [k \in DOMAIN cache \cup {key} |-> IF k = key THEN entry ELSE cache[k]]

\* mutant: an entry is still served at the instant it expires
CacheLive_inclusive(cache, t, key) ==
    key \in DOMAIN cache /\ cache[key].expiresAt >= t

\* A live entry: present and not yet expired at time t.
CacheLive(cache, t, key) == key \in DOMAIN cache /\ cache[key].expiresAt > t

\* mutant: a hit renews the entry's expiry
getParentId_slidingExpiry(cache, t, fail, resourceId) ==
    LET normalizedId == normalizeId(resourceId)
        fetched == ProbeParent(fail, resourceId)
    IN  IF CacheLive(cache, t, normalizedId)
        THEN [value |-> cache[normalizedId].value,
              cache |-> CacheSet(cache, normalizedId,
                                 [value |-> cache[normalizedId].value,
                                  expiresAt |-> t + CACHE_TTL_MS]),
              probes |-> 0, threw |-> FALSE]
        ELSE [value |-> fetched.value,
              cache |-> CacheSet(cache, normalizedId,
                                 [value |-> fetched.value,
                                  expiresAt |-> t + CACHE_TTL_MS]),
              probes |-> fetched.probes, threw |-> FALSE]

\* mutant: a lookup whose probes found nothing is not cached
getParentId_noNegative(cache, t, fail, resourceId) ==
    LET normalizedId == normalizeId(resourceId)
        fetched == ProbeParent(fail, resourceId)
    IN  IF CacheLive(cache, t, normalizedId)
        THEN [value |-> cache[normalizedId].value, cache |-> cache, probes |-> 0,
              threw |-> FALSE]
        ELSE IF fetched.value = Null
        THEN [value |-> Null, cache |-> cache, probes |-> fetched.probes,
              threw |-> fetched.threw]
        ELSE [value |-> fetched.value,
              cache |-> CacheSet(cache, normalizedId,
                                 [value |-> fetched.value,
                                  expiresAt |-> t + CACHE_TTL_MS]),
              probes |-> fetched.probes, threw |-> FALSE]

\* mutant: every lookup goes to the API
getParentId_noCache(cache, t, fail, resourceId) ==
    LET fetched == ProbeParent(fail, resourceId)
    IN  [value |-> fetched.value,
         cache |-> CacheSet(cache, normalizeId(resourceId),
                            [value |-> fetched.value,
                             expiresAt |-> t + CACHE_TTL_MS]),
         probes |-> fetched.probes, threw |-> fetched.threw]

\* getParentId(client, resourceId) started at time t with the cache as given:
\* the value returned, the cache afterwards, and the retrievals issued.
getParentId(cache, t, fail, resourceId) ==
    LET normalizedId == normalizeId(resourceId)
        fetched == ProbeParent(fail, resourceId)
    IN  IF CacheLive(cache, t, normalizedId)
        THEN [value |-> cache[normalizedId].value, cache |-> cache, probes |-> 0,
              threw |-> FALSE]
        ELSE IF fetched.threw
        THEN [value |-> Null, cache |-> cache, probes |-> fetched.probes,
              threw |-> TRUE]
        ELSE [value |-> fetched.value,
              cache |-> CacheSet(cache, normalizedId,
                                 [value |-> fetched.value,
                                  expiresAt |-> t + CACHE_TTL_MS]),
              probes |-> fetched.probes, threw |-> FALSE]

(***************************************************************************)
(* isDescendantOf: the bounded walk up the parent chain.                   *)
(***************************************************************************)
RECURSIVE Walk(_, _, _, _, _, _, _, _)
Walk(cache, t, fail, ancestorId, maxDepth, currentId, depth, acc) ==
    IF currentId = Null \/ ~(depth < maxDepth)
    THEN [result |-> FALSE, cache |-> cache,
          lookups |-> acc.lookups, probes |-> acc.probes, threw |-> FALSE]
    ELSE Bind(getParentId(cache, t, fail, currentId), LAMBDA got :
            IF got.threw \/ got.value = Null
            THEN [result |-> FALSE, cache |-> got.cache,
                  lookups |-> acc.lookups + 1,
                  probes |-> acc.probes + got.probes, threw |-> got.threw]
            ELSE IF idsMatch(got.value, ancestorId)
            THEN [result |-> TRUE, cache |-> got.cache,
                  lookups |-> acc.lookups + 1,
                  probes |-> acc.probes + got.probes, threw |-> FALSE]
            ELSE Walk(got.cache, t, fail, ancestorId, maxDepth,
                      got.value, depth + 1,
                      [lookups |-> acc.lookups + 1,
                       probes |-> acc.probes + got.probes]))

\* mutant: the loop runs for twice maxDepth
isDescendantOf_doubleDepth(cache, t, fail, resourceId, ancestorId, maxDepth) ==
    IF idsMatch(resourceId, ancestorId)
    THEN [result |-> TRUE, cache |-> cache, lookups |-> 0, probes |-> 0,
          threw |-> FALSE]
    ELSE Walk(cache, t, fail, ancestorId, 2 * maxDepth, resourceId, 0,
              [lookups |-> 0, probes |-> 0])

\* mutant: the loop admits one hop more than maxDepth
isDescendantOf_offByOne(cache, t, fail, resourceId, ancestorId, maxDepth) ==
    IF idsMatch(resourceId, ancestorId)
    THEN [result |-> TRUE, cache |-> cache, lookups |-> 0, probes |-> 0,
          threw |-> FALSE]
    ELSE Walk(cache, t, fail, ancestorId, maxDepth + 1, resourceId, 0,
              [lookups |-> 0, probes |-> 0])

\* mutant: the walk gives up one hop early
isDescendantOf_shallow(cache, t, fail, resourceId, ancestorId, maxDepth) ==
    IF idsMatch(resourceId, ancestorId)
    THEN [result |-> TRUE, cache |-> cache, lookups |-> 0, probes |-> 0,
          threw |-> FALSE]
    ELSE Walk(cache, t, fail, ancestorId, maxDepth - 1, resourceId, 0,
              [lookups |-> 0, probes |-> 0])

\* mutant: the resource itself is looked up like any other node
isDescendantOf_noSelf(cache, t, fail, resourceId, ancestorId, maxDepth) ==
    Walk(cache, t, fail, ancestorId, maxDepth, resourceId, 0,
         [lookups |-> 0, probes |-> 0])

isDescendantOf(cache, t, fail, resourceId, ancestorId, maxDepth) ==
    IF idsMatch(resourceId, ancestorId)
    THEN [result |-> TRUE, cache |-> cache, lookups |-> 0, probes |-> 0,
          threw |-> FALSE]
    ELSE Walk(cache, t, fail, ancestorId, maxDepth, resourceId, 0,
              [lookups |-> 0, probes |-> 0])

(***************************************************************************)
(* checkWriteCondition.  JavaScript values are tagged so that === is       *)
(* record equality: a string never equals a boolean.                       *)
(***************************************************************************)
JsString(text) == [kind |-> "string", text |-> text]
JsBoolean(b) == [kind |-> "boolean", text |-> IF b THEN "true" ELSE "false"]
JsNull == [kind |-> "null", text |-> ""]
JsUndefined == [kind |-> "undefined", text |-> ""]

\* A rule without the optional key: reading it yields undefined.
NoCondition == [property |-> "", type |-> Undefined, equals |-> JsUndefined]

\* property.select?.name and property.status?.name
OptionName(option) == IF option = JsNull THEN JsUndefined ELSE option

\* mutant: a people condition holds as soon as anyone is assigned
ConditionHolds_anyPerson(property, condition) ==
    IF condition.type = "people"
    THEN property.type = "people" /\ property.value # {}
    ELSE IF condition.type = "select"
    THEN property.type = "select"
         /\ OptionName(property.value) = condition.equals
    ELSE IF condition.type = "multi_select"
    THEN property.type = "multi_select" /\ condition.equals \in property.value
    ELSE IF condition.type = "status"
    THEN property.type = "status"
         /\ OptionName(property.value) = condition.equals
    ELSE IF condition.type = "checkbox"
    THEN property.type = "checkbox" /\ property.value = condition.equals
    ELSE FALSE

\* The switch on condition.type, on the property the page reports.
ConditionHolds(property, condition) ==
    IF condition.type = "people"
    THEN property.type = "people" /\ condition.equals \in property.value
    ELSE IF condition.type = "select"
    THEN property.type = "select"
         /\ OptionName(property.value) = condition.equals
    ELSE IF condition.type = "multi_select"
    THEN property.type = "multi_select" /\ condition.equals \in property.value
    ELSE IF condition.type = "status"
    THEN property.type = "status"
         /\ OptionName(property.value) = condition.equals
    ELSE IF condition.type = "checkbox"
    THEN property.type = "checkbox" /\ property.value = condition.equals
    ELSE FALSE

\* mutant: the catch clause answers true
checkWriteCondition_failOpen(fail, pageId, condition) ==
    IF ~pagesRetrieve(fail, pageId).ok THEN TRUE
    ELSE IF ~props[NodeOf(pageId)].hasProperties THEN FALSE
    ELSE IF condition.property \notin DOMAIN props[NodeOf(pageId)].properties
    THEN FALSE
    ELSE ConditionHolds(props[NodeOf(pageId)].properties[condition.property],
                        condition)

checkWriteCondition(fail, pageId, condition) ==
    IF ~pagesRetrieve(fail, pageId).ok THEN FALSE
    ELSE IF ~props[NodeOf(pageId)].hasProperties THEN FALSE
    ELSE IF condition.property \notin DOMAIN props[NodeOf(pageId)].properties
    THEN FALSE
    ELSE ConditionHolds(props[NodeOf(pageId)].properties[condition.property],
                        condition)

(***************************************************************************)
(* checkPermission.                                                        *)
(***************************************************************************)
GranularPermissionValues ==
    {"page:read", "page:update", "page:create",
     "database:read", "database:query", "database:create",
     "block:read", "block:append", "block:delete"}

\* The keys and values of the permissionMap literal of checkPermission.
permissionMap == [k \in {"read", "write", "create", "delete"} |-> k]

\* mutant: the table maps every granular operation to itself
PermissionMapLookup_granular(operation) ==
    IF operation \in DOMAIN permissionMap \cup GranularPermissionValues
    THEN operation
    ELSE Undefined

\* permissionMap[operation]: undefined for a key the literal does not have
PermissionMapLookup(operation) ==
    IF operation \in DOMAIN permissionMap
    THEN permissionMap[operation]
    ELSE Undefined

\* rule.writeCondition: RuleSchema has no such key, so a parsed rule
\* carries it only if the record does.
RuleWriteCondition(rule) ==
    IF "writeCondition" \in DOMAIN rule THEN rule.writeCondition ELSE NoCondition

NoRule == 0

\* mutant: the databaseId branch is tested before the pageId branch
RuleMatches_databaseFirst(cache, t, fail, rule, resourceId) ==
    IF rule.databaseId # Null
    THEN IF idsMatch(resourceId, rule.databaseId)
         THEN [matches |-> TRUE, cache |-> cache, lookups |-> 0, probes |-> 0,
               threw |-> FALSE]
         ELSE Bind(getParentId(cache, t, fail, resourceId), LAMBDA got :
                [matches |-> ~got.threw /\ got.value # Null
                             /\ idsMatch(got.value, rule.databaseId),
                 cache |-> got.cache, lookups |-> 1, probes |-> got.probes,
                 threw |-> got.threw])
    ELSE IF rule.pageId # Null
    THEN Bind(isDescendantOf(cache, t, fail, resourceId, rule.pageId,
                             DefaultMaxDepth),
              LAMBDA d : [matches |-> d.result, cache |-> d.cache,
                          lookups |-> d.lookups, probes |-> d.probes,
                          threw |-> d.threw])
    ELSE [matches |-> FALSE, cache |-> cache, lookups |-> 0, probes |-> 0,
          threw |-> FALSE]

\* mutant: a database rule covers every descendant of the database
RuleMatches_deepDatabase(cache, t, fail, rule, resourceId) ==
    IF rule.pageId # Null \/ rule.databaseId # Null
    THEN Bind(isDescendantOf(cache, t, fail, resourceId,
                             IF rule.pageId # Null THEN rule.pageId
                             ELSE rule.databaseId, DefaultMaxDepth),
              LAMBDA d : [matches |-> d.result, cache |-> d.cache,
                          lookups |-> d.lookups, probes |-> d.probes,
                          threw |-> d.threw])
    ELSE [matches |-> FALSE, cache |-> cache, lookups |-> 0, probes |-> 0,
          threw |-> FALSE]

\* The match test of one rule: the first branch with a truthy scope id.
RuleMatches(cache, t, fail, rule, resourceId) ==
    IF rule.pageId # Null
    THEN Bind(isDescendantOf(cache, t, fail, resourceId, rule.pageId,
                             DefaultMaxDepth),
              LAMBDA d : [matches |-> d.result, cache |-> d.cache,
                          lookups |-> d.lookups, probes |-> d.probes,
                          threw |-> d.threw])
    ELSE IF rule.databaseId # Null
    THEN IF idsMatch(resourceId, rule.databaseId)
         THEN [matches |-> TRUE, cache |-> cache, lookups |-> 0, probes |-> 0,
               threw |-> FALSE]
         ELSE Bind(getParentId(cache, t, fail, resourceId), LAMBDA got :
                [matches |-> ~got.threw /\ got.value # Null
                             /\ idsMatch(got.value, rule.databaseId),
                 cache |-> got.cache, lookups |-> 1, probes |-> got.probes,
                 threw |-> got.threw])
    ELSE [matches |-> FALSE, cache |-> cache, lookups |-> 0, probes |-> 0,
          threw |-> FALSE]

\* mutant: the rule's permissions are searched for the operation itself,
\* and its condition is evaluated only for a call that names a page for it
MatchedDecision_pageConditionOnly(fail, rule, ruleIndex, resourceId, operation, pageIdForCondition) ==
    LET hasPermission == operation \in rule.permissions
        gated == pageIdForCondition # Null /\ rule.condition # NoCondition
        conditionMet == checkWriteCondition(fail, pageIdForCondition, rule.condition)
    IN  IF ~hasPermission
        THEN [allowed |-> FALSE, rule |-> ruleIndex, conditionChecked |-> FALSE,
              reason |-> <<"Operation '", operation,
                           "' not allowed by rule '", rule.name, "'">>]
        ELSE IF gated /\ ~conditionMet
        THEN [allowed |-> FALSE, rule |-> ruleIndex, conditionChecked |-> TRUE,
              reason |-> <<"Write condition not met: ", rule.condition.property,
                           " must equal '", rule.condition.equals.text, "'">>]
        ELSE [allowed |-> TRUE, rule |-> ruleIndex, conditionChecked |-> gated,
              reason |-> <<"Allowed by rule '", rule.name, "'">>]

\* The body of the loop once a rule matched.
MatchedDecision(fail, rule, ruleIndex, resourceId, operation, pageIdForCondition) ==
    LET hasPermission == PermissionMapLookup(operation) \in rule.permissions
        writeCondition == RuleWriteCondition(rule)
        gated == (operation = "write" \/ operation = "create")
                 /\ writeCondition # NoCondition
        targetPageId == IF pageIdForCondition # Null
                        THEN pageIdForCondition ELSE resourceId
        conditionMet == checkWriteCondition(fail, targetPageId, writeCondition)
    IN  IF ~hasPermission
        THEN [allowed |-> FALSE, rule |-> ruleIndex, conditionChecked |-> FALSE,
              reason |-> <<"Operation '", operation,
                           "' not allowed by rule '", rule.name, "'">>]
        ELSE IF gated /\ ~conditionMet
        THEN [allowed |-> FALSE, rule |-> ruleIndex, conditionChecked |-> TRUE,
              reason |-> <<"Write condition not met: ", writeCondition.property,
                           " must equal '", writeCondition.equals.text, "'">>]
        ELSE [allowed |-> TRUE, rule |-> ruleIndex, conditionChecked |-> gated,
              reason |-> <<"Allowed by rule '", rule.name, "'">>]

\* mutant: the default policy grants every operation
DefaultDecision_allowAll(cfg, operation) ==
    [allowed |-> TRUE, rule |-> NoRule, conditionChecked |-> FALSE,
     reason |-> <<"Allowed by default read permission">>]

\* No matching rule, use default permission.
DefaultDecision(cfg, operation) ==
    IF cfg.defaultPermission = "read" /\ operation = "read"
    THEN [allowed |-> TRUE, rule |-> NoRule, conditionChecked |-> FALSE,
          reason |-> <<"Allowed by default read permission">>]
    ELSE [allowed |-> FALSE, rule |-> NoRule, conditionChecked |-> FALSE,
          reason |-> <<"No matching rule and default permission is deny">>]

WithEffects(decision, cache, acc) ==
    [allowed |-> decision.allowed, rule |-> decision.rule,
     reason |-> decision.reason, conditionChecked |-> decision.conditionChecked,
     cache |-> cache, lookups |-> acc.lookups, probes |-> acc.probes,
     threw |-> FALSE]

\* checkPermission left by an exception: no decision is returned.
Rejected(cache, acc) ==
    [allowed |-> FALSE, rule |-> NoRule, reason |-> <<>>,
     conditionChecked |-> FALSE,
     cache |-> cache, lookups |-> acc.lookups, probes |-> acc.probes,
     threw |-> TRUE]

\* for (const rule of config.rules) from index i on
RECURSIVE RuleLoop(_, _, _, _, _, _, _, _, _)
RuleLoop(cache, t, fail, cfg, resourceId, operation, pageIdForCondition, i, acc) ==
    IF i > Len(cfg.rules)
    THEN WithEffects(DefaultDecision(cfg, operation), cache, acc)
    ELSE Bind(RuleMatches(cache, t, fail, cfg.rules[i], resourceId), LAMBDA m :
            IF m.threw
            THEN Rejected(m.cache, [lookups |-> acc.lookups + m.lookups,
                                    probes |-> acc.probes + m.probes])
            ELSE IF m.matches
            THEN WithEffects(MatchedDecision(fail, cfg.rules[i], i, resourceId,
                                             operation, pageIdForCondition),
                             m.cache,
                             [lookups |-> acc.lookups + m.lookups,
                              probes |-> acc.probes + m.probes])
            ELSE RuleLoop(m.cache, t, fail, cfg, resourceId, operation,
                          pageIdForCondition, i + 1,
                          [lookups |-> acc.lookups + m.lookups,
                           probes |-> acc.probes + m.probes]))

\* mutant: a matching rule that lacks the operation is passed over, so that
\* the permissions of all matching rules add up
RECURSIVE RuleLoopUnion(_, _, _, _, _, _, _, _, _)
RuleLoopUnion(cache, t, fail, cfg, resourceId, operation, pageIdForCondition, i, acc) ==
    IF i > Len(cfg.rules)
    THEN WithEffects(DefaultDecision(cfg, operation), cache, acc)
    ELSE Bind(RuleMatches(cache, t, fail, cfg.rules[i], resourceId), LAMBDA m :
            IF m.threw
            THEN Rejected(m.cache, [lookups |-> acc.lookups + m.lookups,
                                    probes |-> acc.probes + m.probes])
            ELSE IF m.matches /\ MatchedDecision(fail, cfg.rules[i], i, resourceId,
                                            operation, pageIdForCondition).allowed
            THEN WithEffects(MatchedDecision(fail, cfg.rules[i], i, resourceId,
                                             operation, pageIdForCondition),
                             m.cache,
                             [lookups |-> acc.lookups + m.lookups,
                              probes |-> acc.probes + m.probes])
            ELSE RuleLoopUnion(m.cache, t, fail, cfg, resourceId, operation,
                               pageIdForCondition, i + 1,
                               [lookups |-> acc.lookups + m.lookups,
                                probes |-> acc.probes + m.probes]))

checkPermission_union(cache, t, fail, cfg, resourceId, operation, pageIdForCondition) ==
    RuleLoopUnion(cache, t, fail, cfg, resourceId, operation, pageIdForCondition,
                  1, [lookups |-> 0, probes |-> 0])

\* checkPermission(client, config, resourceId, operation, pageIdForCondition)
\* started at time t with the cache as given.
checkPermission(cache, t, fail, cfg, resourceId, operation, pageIdForCondition) ==
    RuleLoop(cache, t, fail, cfg, resourceId, operation, pageIdForCondition, 1,
             [lookups |-> 0, probes |-> 0])

(***************************************************************************)
(* The workspaces, property values and configurations the model draws      *)
(* from.  Every workspace is a chain 0 -> 1 -> ... whose last node lies at *)
(* the workspace root or (looped) points back to node 1.                   *)
(***************************************************************************)
Nodes == 0..(NumNodes - 1)

\* Kind of each node, by pattern.
KindOf(pattern, n) ==
    CASE pattern = "blockInPages" -> IF n = 0 THEN "block" ELSE "page"
      [] pattern = "pageInDatabase" \/ pattern = "pageInDataSource" ->
            IF n = 0 THEN "block" ELSE IF n = 2 THEN "database" ELSE "page"
      [] pattern = "pageInBlock" -> IF n = 1 THEN "block" ELSE "page"
      [] OTHER -> "page"

\* The parent object the API prints for a child of kind `kind` under node p.
ParentObject(pattern, kind, p, pkind) ==
    IF pkind = "page"
    THEN [type |-> "page_id", id |-> ApiId(p), database_id |-> Null]
    ELSE IF pkind = "block"
    THEN [type |-> "block_id", id |-> ApiId(p), database_id |-> Null]
    ELSE IF kind = "page" /\ pattern = "pageInDataSource"
    THEN [type |-> "data_source_id", id |-> ApiId(p), database_id |-> ApiId(p)]
    ELSE [type |-> "database_id", id |-> ApiId(p), database_id |-> Null]

WorkspaceParent == [type |-> "workspace", id |-> Null, database_id |-> Null]

Chain(pattern, len, looped) ==
    [n \in 0..(len - 1) |->
        [kind |-> KindOf(pattern, n),
         parent |-> IF n < len - 1
                    THEN ParentObject(pattern, KindOf(pattern, n), n + 1,
                                      KindOf(pattern, n + 1))
                    ELSE IF looped /\ len > 1
                    THEN ParentObject(pattern, KindOf(pattern, n), 1,
                                      KindOf(pattern, 1))
                    ELSE WorkspaceParent]]

Patterns == {"blockInPages", "pageInDatabase", "pageInDataSource", "pageInBlock"}

Workspaces == {Chain(pattern, NumNodes, FALSE) : pattern \in Patterns}

\* The chains of the depth check: one node more than the walk can cover.
DeepWorkspaces ==
    {Chain("blockInPages", DefaultMaxDepth + 2, looped) : looped \in BOOLEAN}

\* Page 1 is assigned to "me", every other page to someone else.
PropertiesOf(nodes) ==
    [n \in nodes |->
        [hasProperties |-> TRUE,
         properties |-> [p \in {"Assignee"} |->
                           [type |-> "people",
                            value |-> {JsString(IF n = 1 THEN "me" ELSE "other")}]]]]

PeopleCondition ==
    [property |-> "Assignee", type |-> "people", equals |-> JsString("me")]

\* Rules as RuleSchema parses them: name, optional pageId / databaseId,
\* permissions, optional condition.  Scope ids are spelled as a user may
\* paste them.
RuleDocs ==
    [name |-> "docs", pageId |-> UpperId(2), databaseId |-> Null,
     permissions |-> {"page:read", "block:read"}, condition |-> NoCondition]
RuleEditors ==
    [name |-> "editors", pageId |-> ApiId(1), databaseId |-> Null,
     permissions |-> {"page:read", "page:update", "block:append", "block:delete"},
     condition |-> PeopleCondition]
RuleTasksDb ==
    [name |-> "tasks-db", pageId |-> Null, databaseId |-> UpperId(2),
     permissions |-> {"database:read", "database:query", "database:create"},
     condition |-> NoCondition]
RuleMyTasks ==
    [name |-> "my-tasks-only", pageId |-> Null, databaseId |-> CanonId(2),
     permissions |-> {"page:update"}, condition |-> PeopleCondition]

RuleFamily == {RuleDocs, RuleEditors, RuleTasksDb, RuleMyTasks}

RuleLists ==
    {<<>>} \cup {<<a>> : a \in RuleFamily}
           \cup {<<pair[1], pair[2]>> :
                    pair \in {q \in RuleFamily \X RuleFamily : q[1] # q[2]}}

Configs ==
    {[rules |-> rules, defaultPermission |-> d] :
        rules \in RuleLists, d \in {"deny", "read"}}

EmptyCache == [k \in {} |-> Null]

\* The spelling a caller passes for a node: copied from the API's output
\* for the even nodes, typed bare and in upper case for the odd ones.
Spelling(n) == IF n % 2 = 0 THEN ApiId(n) ELSE UpperId(n)

\* The sets of nodes whose retrievals throw during one call.
FailSets(nodes) == {F \in SUBSET nodes : Cardinality(F) <= MaxFail}

IdleCall == [call |-> Idle]

(***************************************************************************)
(* Spec: the command-line program.  Each command is a fresh process: the   *)
(* configuration is loaded, the cache starts empty, one NotionSafeClient   *)
(* method asks checkPermission once, and the process ends.                 *)
(***************************************************************************)
\* The (operation, pageIdForCondition) pairs NotionSafeClient passes.
ConditionTarget(resourceId, operation) ==
    IF operation = "page:update" THEN resourceId ELSE Null

Init ==
    /\ remote \in Workspaces
    /\ props = PropertiesOf(Nodes)
    /\ config \in Configs
    /\ parentCache = EmptyCache
    /\ now = 0
    /\ last = IdleCall
    /\ pending = <<>>

EnsurePermission(n, resourceId, operation, fail) ==
    /\ last = IdleCall
    /\ \E r \in {checkPermission(parentCache, now, fail, config, resourceId,
                                  operation, ConditionTarget(resourceId, operation))} :
           /\ parentCache' = r.cache
           /\ last' = [call |-> "checkPermission", node |-> n,
                       resourceId |-> resourceId, operation |-> operation,
                       pageIdForCondition |-> ConditionTarget(resourceId, operation),
                       fail |-> fail, allowed |-> r.allowed, rule |-> r.rule,
                       reason |-> r.reason, conditionChecked |-> r.conditionChecked,
                       lookups |-> r.lookups, probes |-> r.probes,
                       threw |-> r.threw]
    /\ UNCHANGED <<remote, props, config, now, pending>>

\* The process ends: its module-level Map is gone with it.
Exit ==
    /\ last # IdleCall
    /\ last' = IdleCall
    /\ parentCache' = EmptyCache
    /\ UNCHANGED <<remote, props, config, now, pending>>

Next ==
    \/ \E n \in Nodes : \E operation \in GranularPermissionValues :
         \E fail \in FailSets(Nodes) :
            EnsurePermission(n, Spelling(n), operation, fail)
    \/ Exit

Spec == Init /\ [][Next]_vars

(***************************************************************************)
(* SpecWalk: isDescendantOf on chains one node longer than the default     *)
(* depth covers, straight and looped, each walk in a fresh process.        *)
(***************************************************************************)
DeepNodes == 0..(DefaultMaxDepth + 1)

InitWalk ==
    /\ remote \in DeepWorkspaces
    /\ props = PropertiesOf(DeepNodes)
    /\ config = [rules |-> <<>>, defaultPermission |-> "deny"]
    /\ parentCache = EmptyCache
    /\ now = 0
    /\ last = IdleCall
    /\ pending = <<>>

IsDescendantOfCall(n, a, maxDepth, fail) ==
    /\ last = IdleCall
    /\ \E r \in {isDescendantOf(parentCache, now, fail, Spelling(n), UpperId(a),
                                 maxDepth)} :
           /\ parentCache' = r.cache
           /\ last' = [call |-> "isDescendantOf", node |-> n, ancestor |-> a,
                       resourceId |-> Spelling(n), ancestorId |-> UpperId(a),
                       maxDepth |-> maxDepth, fail |-> fail,
                       result |-> r.result, lookups |-> r.lookups,
                       probes |-> r.probes]
    /\ UNCHANGED <<remote, props, config, now, pending>>

NextWalk ==
    \/ \E n \in DeepNodes : \E a \in DeepNodes : \E fail \in FailSets(DeepNodes) :
            IsDescendantOfCall(n, a, DefaultMaxDepth, fail)
    \/ Exit

SpecWalk == InitWalk /\ [][NextWalk]_vars

(***************************************************************************)
(* What the specification says of a decision, stated on the call that has  *)
(* just returned.  The parent pointer of an id is what getParent answers   *)
(* for it in the process of that call.                                     *)
(***************************************************************************)
ReadClass == {"page:read", "database:read", "database:query", "block:read"}
WriteClass == {"page:update", "page:create", "database:create",
               "block:append", "block:delete"}

Decided == last.call = "checkPermission"
Walked == last.call = "isDescendantOf"

ParentPointer(id) == getParentId(parentCache, now, last.fail, id).value

\* ancestorId is the parent pointer of id, or of that pointer's target, and
\* so on for at most maxDepth hops.
RECURSIVE WithinHops(_, _, _)
WithinHops(id, ancestorId, maxDepth) ==
    /\ maxDepth > 0
    /\ LET parent == ParentPointer(id)
       IN  /\ parent # Null
           /\ (idsMatch(parent, ancestorId)
                 \/ WithinHops(parent, ancestorId, maxDepth - 1))

\* Section 4.4: the scope of a rule.
InScope(rule, id) ==
    IF rule.pageId # Null
    THEN idsMatch(id, rule.pageId) \/ WithinHops(id, rule.pageId, DefaultMaxDepth)
    ELSE IF rule.databaseId # Null
    THEN idsMatch(id, rule.databaseId)
         \/ (ParentPointer(id) # Null /\ idsMatch(ParentPointer(id), rule.databaseId))
    ELSE FALSE

Covering(id) == {i \in 1..Len(config.rules) : InScope(config.rules[i], id)}

FirstCovering(id) ==
    IF Covering(id) = {} THEN NoRule
    ELSE CHOOSE i \in Covering(id) : \A j \in Covering(id) : i <= j

\* C1: with the default policy Deny, a call that no rule covers (an empty
\* rule list included) is denied and carries no matched rule.
C1_FailClosedDefault ==
    (Decided /\ config.defaultPermission = "deny"
        /\ FirstCovering(last.resourceId) = NoRule)
    => (last.allowed = FALSE /\ last.rule = NoRule)

C1_Witness ==
    /\ Decided /\ config.defaultPermission = "deny"
    /\ Len(config.rules) = 2
    /\ FirstCovering(last.resourceId) = NoRule
    /\ last.operation = "page:read"
    /\ last.allowed = FALSE /\ last.rule = NoRule

\* C2: when no rule covers the resource, the call is allowed exactly when
\* the default policy is "read" and the operation is read-class.
C2_DefaultRead ==
    (Decided /\ FirstCovering(last.resourceId) = NoRule)
    => (last.allowed <=> (config.defaultPermission = "read"
                          /\ last.operation \in ReadClass))

\* C3: the decision is that of the earliest covering rule: it is the rule
\* attached, the reason names it, and an operation it lacks is denied
\* whatever a later covering rule grants.
C3_FirstMatchWins ==
    (Decided /\ FirstCovering(last.resourceId) # NoRule)
    => LET first == FirstCovering(last.resourceId)
       IN  /\ last.rule = first
           /\ config.rules[first].name \in {last.reason[i] : i \in 1..Len(last.reason)}
           /\ (last.operation \notin config.rules[first].permissions
                  => last.allowed = FALSE)

C3_Witness ==
    /\ Decided
    /\ Cardinality(Covering(last.resourceId)) = 2
    /\ last.rule = 1
    /\ last.operation \notin config.rules[1].permissions
    /\ last.operation \in config.rules[2].permissions
    /\ last.allowed = FALSE

\* C4: under a covering rule, for a read-class operation or a rule without
\* condition, the call is allowed exactly when the rule's permissions hold
\* the operation, with that rule attached and no property fetched.
C4_PermissionSetDecides ==
    (Decided /\ FirstCovering(last.resourceId) # NoRule)
    => LET rule == config.rules[FirstCovering(last.resourceId)]
       IN  (last.operation \in ReadClass \/ rule.condition = NoCondition)
           => /\ last.allowed <=> last.operation \in rule.permissions
              /\ last.rule = FirstCovering(last.resourceId)
              /\ ~last.conditionChecked

\* C5: under a covering rule that grants a write-class operation and
\* declares a condition, the call is allowed exactly when the condition
\* holds on pageIdForCondition, or on the resource if none was passed; a
\* denial carries the rule.
C5_ConditionGates ==
    (Decided /\ FirstCovering(last.resourceId) # NoRule)
    => LET rule == config.rules[FirstCovering(last.resourceId)]
           target == IF last.pageIdForCondition # Null
                     THEN last.pageIdForCondition ELSE last.resourceId
       IN  (last.operation \in WriteClass /\ last.operation \in rule.permissions
               /\ rule.condition # NoCondition)
           => /\ last.allowed <=> checkWriteCondition(last.fail, target, rule.condition)
              /\ last.rule = FirstCovering(last.resourceId)

\* C6: a call that is allowed while some retrievals throw is also allowed
\* when none does: a remote failure never turns a deny into an allow.
C6_FailureNeverGrants ==
    Decided
    => (last.allowed
          => checkPermission(EmptyCache, now, {}, config, last.resourceId,
                             last.operation, last.pageIdForCondition).allowed)

C6_Witness ==
    /\ Decided /\ last.fail # {}
    /\ config.defaultPermission = "read"
    /\ last.operation \in ReadClass
    /\ last.rule = NoRule
    /\ checkPermission(EmptyCache, now, {}, config, last.resourceId,
                       last.operation, last.pageIdForCondition).rule # NoRule
    /\ last.allowed = FALSE

\* C7: a page-scoped rule that no earlier rule pre-empts is the matched
\* rule exactly when the resource is the page under normalization, which
\* takes no lookup, or the page lies within DefaultMaxDepth parent hops.
C7_PageRuleMatching ==
    Decided
    => \A i \in 1..Len(config.rules) :
          (config.rules[i].pageId # Null
              /\ \A j \in 1..(i - 1) : ~InScope(config.rules[j], last.resourceId))
          => /\ last.rule = i
                 <=> (idsMatch(last.resourceId, config.rules[i].pageId)
                      \/ WithinHops(last.resourceId, config.rules[i].pageId,
                                    DefaultMaxDepth))
             /\ (i = 1 /\ idsMatch(last.resourceId, config.rules[i].pageId))
                 => (last.lookups = 0 /\ last.probes = 0)

C7_Witness ==
    /\ Decided /\ last.fail = {}
    /\ Len(config.rules) = 1 /\ config.rules[1] = RuleDocs
    /\ last.node = 0
    /\ last.rule = 1 /\ last.lookups = 2

\* C8: a database-scoped rule that no earlier rule pre-empts is the matched
\* rule exactly when the resource is the database under normalization or
\* its parent pointer is; a resource further below is not covered, and the
\* test of a database rule takes at most one lookup.
C8_DatabaseRuleShallow ==
    Decided
    => /\ \A i \in 1..Len(config.rules) :
            (config.rules[i].pageId = Null /\ config.rules[i].databaseId # Null
                /\ \A j \in 1..(i - 1) : ~InScope(config.rules[j], last.resourceId))
            => (last.rule = i
                   <=> (idsMatch(last.resourceId, config.rules[i].databaseId)
                        \/ (ParentPointer(last.resourceId) # Null
                            /\ idsMatch(ParentPointer(last.resourceId),
                                        config.rules[i].databaseId))))
       /\ (\A i \in 1..Len(config.rules) : config.rules[i].pageId = Null)
            => last.lookups <= Len(config.rules)

C8_Witness ==
    /\ Decided /\ last.fail = {}
    /\ remote[2].kind = "database"
    /\ Len(config.rules) = 1 /\ config.rules[1] = RuleTasksDb
    /\ last.node = 0
    /\ WithinHops(last.resourceId, RuleTasksDb.databaseId, 2)
    /\ last.rule = NoRule /\ last.lookups = 1

\* C9: the walk answers false whenever the ancestor is neither the resource
\* itself nor within maxDepth parent hops of it; with no retrieval failing,
\* an ancestor maxDepth hops up the chain is found and one a hop further is
\* not, after exactly maxDepth lookups.
C9_DepthBoundDenies ==
    Walked
    => /\ ~(idsMatch(last.resourceId, last.ancestorId)
              \/ WithinHops(last.resourceId, last.ancestorId, last.maxDepth))
            => last.result = FALSE
       /\ (last.fail = {} /\ last.ancestor = last.node + last.maxDepth)
            => last.result = TRUE
       /\ (last.fail = {} /\ last.ancestor = last.node + last.maxDepth + 1)
            => (last.result = FALSE /\ last.lookups = last.maxDepth)

C9_Witness ==
    /\ Walked /\ last.fail = {}
    /\ last.maxDepth = DefaultMaxDepth
    /\ last.ancestor = last.node + DefaultMaxDepth + 1
    /\ last.result = FALSE /\ last.lookups = DefaultMaxDepth

\* The answer of isDescendantOf in the process of the call that returned.
Descends(id, ancestorId) ==
    isDescendantOf(parentCache, now, last.fail, id, ancestorId,
                   last.maxDepth).result

\* C10: if the resource descends from some B and B from the ancestor, and
\* the ancestor lies within maxDepth hops of the resource, the walk from
\* the resource to the ancestor answers true.
C10_DescendantTransitive ==
    Walked
    => \A b \in DOMAIN remote :
          (/\ Descends(last.resourceId, ApiId(b))
           /\ Descends(UpperId(b), last.ancestorId)
           /\ (idsMatch(last.resourceId, last.ancestorId)
                 \/ WithinHops(last.resourceId, last.ancestorId, last.maxDepth)))
          => last.result = TRUE

C10_Witness ==
    /\ Walked /\ last.result = TRUE
    /\ last.ancestor = last.node + DefaultMaxDepth
    /\ \E b \in DOMAIN remote :
          /\ last.node < b /\ b < last.ancestor
          /\ Descends(last.resourceId, ApiId(b))
          /\ Descends(UpperId(b), last.ancestorId)

(***************************************************************************)
(* SpecCache: getParentId and clearCache in one long-lived process, with   *)
(* the clock advancing between calls.  The clock is sampled one            *)
(* millisecond before and exactly at every multiple of the TTL, so that    *)
(* an entry is looked up just before and exactly at its expiry.            *)
(***************************************************************************)
MaxPeriods == 2        \* TTL periods the clock of SpecCache runs through

\* The nodes SpecCache looks up: a page or block, and a database or page.
CachedNodes == {1, 2}

Spellings(n) == {CanonId(n), ApiId(n), UpperId(n)}

\* parentCache.get(key): the entry, or NoEntry for undefined
NoEntry == [value |-> Null, expiresAt |-> 0 - 1]
EntryAt(cache, key) == IF key \in DOMAIN cache THEN cache[key] ELSE NoEntry

\* mutant: only the negative entries are discarded
clearCache_keepFound(cache) ==
    [k \in {key \in DOMAIN cache : cache[key].value # Null} |-> cache[k]]

\* mutant: clearCache leaves the Map as it is
clearCache_noop(cache) == cache

\* parentCache.clear()
clearCache(cache) == EmptyCache

\* last.dropped: the keys whose entries clearCache discarded and that have
\* not been looked up since.
IdleCache == [call |-> Idle, dropped |-> {}]

InitCache ==
    /\ remote \in Workspaces
    /\ props = PropertiesOf(Nodes)
    /\ config = [rules |-> <<>>, defaultPermission |-> "deny"]
    /\ parentCache = EmptyCache
    /\ now = 0
    /\ last = IdleCache
    /\ pending = <<>>

GetParentIdCall(n, resourceId, fail) ==
    /\ \E r \in {getParentId(parentCache, now, fail, resourceId)} :
           /\ parentCache' = r.cache
           /\ last' = [call |-> "getParentId", node |-> n,
                       resourceId |-> resourceId, t |-> now, fail |-> fail,
                       entry |-> EntryAt(parentCache, normalizeId(resourceId)),
                       wasDropped |-> normalizeId(resourceId) \in last.dropped,
                       dropped |-> last.dropped \ {normalizeId(resourceId)},
                       value |-> r.value, probes |-> r.probes, threw |-> r.threw]
    /\ UNCHANGED <<remote, props, config, now, pending>>

ClearCacheCall ==
    /\ parentCache' = clearCache(parentCache)
    /\ last' = [call |-> "clearCache", dropped |-> last.dropped \cup DOMAIN parentCache]
    /\ UNCHANGED <<remote, props, config, now, pending>>

\* Date.now() moves on.
Tick ==
    /\ now < MaxPeriods * CACHE_TTL_MS
    /\ now' = IF now % CACHE_TTL_MS = 0
              THEN now + CACHE_TTL_MS - 1 ELSE now + 1
    /\ UNCHANGED <<remote, props, config, parentCache, last, pending>>

NextCache ==
    \/ \E n \in CachedNodes : \E resourceId \in Spellings(n) :
         \E fail \in {{}, {n}} : GetParentIdCall(n, resourceId, fail)
    \/ ClearCacheCall
    \/ Tick

SpecCache == InitCache /\ [][NextCache]_vars

LookedUp == last.call = "getParentId"
LookedUpKey == normalizeId(last.resourceId)

\* C11: a lookup that finds an unexpired entry for its normalized id issues
\* no retrieval and returns the entry's value, and the entry a lookup
\* leaves behind holds the value that lookup returned.
C11_CacheHit ==
    LookedUp
    => /\ (last.entry # NoEntry /\ last.entry.expiresAt > last.t)
            => (last.probes = 0 /\ last.value = last.entry.value /\ ~last.threw)
       /\ parentCache[LookedUpKey].value = last.value

C11_Witness ==
    /\ LookedUp /\ last.t > 0
    /\ last.resourceId # LookedUpKey
    /\ last.entry # NoEntry /\ last.entry.expiresAt > last.t
    /\ last.value # Null /\ last.probes = 0

\* C12: after clearCache the cache is empty, and the next lookup of an id
\* whose entry was discarded issues a retrieval.
C12_ClearCacheEmpties ==
    /\ last.call = "clearCache" => parentCache = EmptyCache
    /\ (LookedUp /\ last.wasDropped) => last.probes > 0

C12_Witness ==
    /\ LookedUp
    /\ last.wasDropped /\ last.t = 0
    /\ last.value # Null /\ last.probes > 0

\* C13: a lookup answers from the cache only if the entry's expiresAt is
\* strictly greater than the time of the call; an entry that has expired
\* is looked up again and overwritten.
C13_ExpiredNeverServed ==
    LookedUp
    => /\ last.probes = 0
            => (last.entry # NoEntry /\ last.entry.expiresAt > last.t)
       /\ (last.entry # NoEntry /\ last.entry.expiresAt <= last.t)
            => /\ last.probes > 0
               /\ parentCache[LookedUpKey]
                     = [value |-> last.value,
                        expiresAt |-> last.t + CACHE_TTL_MS]

C13_Witness ==
    /\ LookedUp
    /\ last.entry # NoEntry /\ last.entry.expiresAt = last.t
    /\ last.probes > 0

(***************************************************************************)
(* SpecCondition: checkWriteCondition on pages whose property is of every  *)
(* type the switch knows, is missing, or whose properties are not          *)
(* reported, against conditions of every type.                             *)
(***************************************************************************)
PropertyValues ==
    {[type |-> "people", value |-> {JsString("me")}],
     [type |-> "people", value |-> {JsString("other")}],
     [type |-> "people", value |-> {JsString("me"), JsString("other")}],
     [type |-> "people", value |-> {}],
     [type |-> "select", value |-> JsString("me")],
     [type |-> "select", value |-> JsString("other")],
     [type |-> "select", value |-> JsNull],
     [type |-> "multi_select", value |-> {JsString("me")}],
     [type |-> "multi_select", value |-> {JsString("other")}],
     [type |-> "multi_select", value |-> {JsString("other"), JsString("me")}],
     [type |-> "multi_select", value |-> {}],
     [type |-> "status", value |-> JsString("me")],
     [type |-> "status", value |-> JsString("other")],
     [type |-> "status", value |-> JsNull],
     [type |-> "checkbox", value |-> JsBoolean(TRUE)],
     [type |-> "checkbox", value |-> JsBoolean(FALSE)]}

NoProperties == [p \in {} |-> JsNull]

PagePropertiesFamily ==
    {[hasProperties |-> TRUE, properties |-> [p \in {"Assignee"} |-> v]] :
        v \in PropertyValues}
    \cup {[hasProperties |-> TRUE, properties |-> NoProperties],
          [hasProperties |-> FALSE, properties |-> NoProperties]}

ConditionTypes == {"people", "select", "multi_select", "status", "checkbox"}

Conditions ==
    {[property |-> "Assignee", type |-> ty, equals |-> e] :
        ty \in ConditionTypes, e \in {JsString("me"), JsBoolean(TRUE)}}

InitCondition ==
    /\ remote \in Workspaces
    /\ props \in {[n \in Nodes |-> pp] : pp \in PagePropertiesFamily}
    /\ config = [rules |-> <<>>, defaultPermission |-> "deny"]
    /\ parentCache = EmptyCache
    /\ now = 0
    /\ last = IdleCall
    /\ pending = <<>>

CheckWriteConditionCall(n, condition, fail) ==
    /\ last = IdleCall
    /\ last' = [call |-> "checkWriteCondition", node |-> n,
                pageId |-> Spelling(n), condition |-> condition, fail |-> fail,
                result |-> checkWriteCondition(fail, Spelling(n), condition)]
    /\ UNCHANGED <<remote, props, config, parentCache, now, pending>>

NextCondition ==
    \/ \E n \in Nodes : \E condition \in Conditions :
         \E fail \in FailSets(Nodes) : CheckWriteConditionCall(n, condition, fail)
    \/ Exit

SpecCondition == InitCondition /\ [][NextCondition]_vars

Evaluated == last.call = "checkWriteCondition"

\* What the page of the evaluated call reports under the condition's
\* property name.
Reported == props[last.node].properties

\* C14: the evaluation returns a boolean, and returns false whenever the
\* target is not a page, its retrieval throws, the page reports no such
\* property, or the property's type is not the condition's.
C14_ConditionFailClosed ==
    Evaluated
    => /\ last.result \in BOOLEAN
       /\ (\/ remote[last.node].kind # "page"
           \/ last.node \in last.fail
           \/ last.condition.property \notin DOMAIN Reported
           \/ Reported[last.condition.property].type # last.condition.type)
            => last.result = FALSE

C14_Witness ==
    /\ Evaluated /\ last.result = FALSE
    /\ remote[last.node].kind = "page" /\ last.node \notin last.fail
    /\ last.condition.property \in DOMAIN Reported
    /\ Reported[last.condition.property]
          = [type |-> "multi_select", value |-> {JsString("me")}]
    /\ last.condition.type = "people" /\ last.condition.equals = JsString("me")

\* C15: whatever retrievals fail, checkPermission returns a decision: no
\* exception leaves it, allowed is a boolean and the reason is not empty.
C15_DecideNeverThrows ==
    Decided
    => /\ ~last.threw
       /\ last.allowed \in BOOLEAN
       /\ Len(last.reason) > 0
       /\ \A i \in 1..Len(last.reason) : last.reason[i] # ""

C15_Witness ==
    /\ Decided /\ ~last.threw
    /\ last.node \in last.fail
    /\ last.probes = 3
    /\ last.rule = NoRule /\ Len(config.rules) = 2
    /\ Len(last.reason) > 0

(***************************************************************************)
(* SpecClient: the resource operations of NotionSafeClient, one command    *)
(* per process.  Each operation asks ensurePermission and then forwards    *)
(* its call to the Notion API; forwarded lists the calls it issued after   *)
(* the permission check.                                                   *)
(***************************************************************************)
NoError == "none"

\* mutant: a denial is not thrown
ensurePermission_noThrow(cache, t, fail, cfg, resourceId, operation, pageIdForCondition) ==
    Bind(checkPermission(cache, t, fail, cfg, resourceId, operation,
                         pageIdForCondition),
         LAMBDA result : [result |-> result, error |-> NoError])

\* ensurePermission: error is the code of what it throws, "exception" for
\* one that checkPermission let through.
ensurePermission(cache, t, fail, cfg, resourceId, operation, pageIdForCondition) ==
    Bind(checkPermission(cache, t, fail, cfg, resourceId, operation,
                         pageIdForCondition),
         LAMBDA result :
            [result |-> result,
             error |-> IF result.threw THEN "exception"
                       ELSE IF ~result.allowed THEN "PERMISSION_DENIED"
                       ELSE NoError])

ApiCall(api, id) == [api |-> api, id |-> id]

\* await this.ensurePermission(...); return this.client.<forward>
Guarded(name, n, targetId, operation, pageIdForCondition, fail, forward) ==
    /\ last = IdleCall
    /\ \E e \in {ensurePermission(parentCache, now, fail, config, targetId,
                                  operation, pageIdForCondition)} :
           /\ parentCache' = e.result.cache
           /\ last' = [call |-> name, node |-> n, targetId |-> targetId,
                       checked |-> TRUE, operation |-> operation,
                       resourceId |-> targetId,
                       allowed |-> e.result.allowed, rule |-> e.result.rule,
                       threw |-> e.result.threw, error |-> e.error,
                       forwarded |-> IF e.error = NoError THEN forward ELSE <<>>]
    /\ UNCHANGED <<remote, props, config, now, pending>>

getPage(n, pageId, fail) ==
    Guarded("getPage", n, pageId, "page:read", Null, fail,
            <<ApiCall("pages.retrieve", pageId)>>)

\* params.parent is { page_id }, { database_id } or something else
createPage(n, parentType, parentId, fail) ==
    IF parentType \in {"page_id", "database_id"}
    THEN Guarded("createPage", n, parentId, "page:create", Null, fail,
                 <<ApiCall("pages.create", parentId)>>)
    ELSE /\ last = IdleCall
         /\ last' = [call |-> "createPage", node |-> n, targetId |-> parentId,
                     checked |-> FALSE, operation |-> "page:create",
                     resourceId |-> Null, allowed |-> FALSE, rule |-> NoRule,
                     threw |-> FALSE, error |-> "INVALID_PARENT",
                     forwarded |-> <<>>]
         /\ UNCHANGED <<remote, props, config, parentCache, now, pending>>

updatePage(n, pageId, fail) ==
    Guarded("updatePage", n, pageId, "page:update", pageId, fail,
            <<ApiCall("pages.update", pageId)>>)

getDatabase(n, databaseId, fail) ==
    Guarded("getDatabase", n, databaseId, "database:read", Null, fail,
            <<ApiCall("databases.retrieve", databaseId)>>)

\* The database is retrieved for its first data source, which is queried
\* if there is one.
queryDatabase(n, databaseId, hasDataSource, fail) ==
    Guarded("queryDatabase", n, databaseId, "database:query", Null, fail,
            IF hasDataSource
            THEN <<ApiCall("databases.retrieve", databaseId),
                   ApiCall("dataSources.query", databaseId)>>
            ELSE <<ApiCall("databases.retrieve", databaseId)>>)

createDatabasePage(n, databaseId, fail) ==
    Guarded("createDatabasePage", n, databaseId, "database:create", Null, fail,
            <<ApiCall("pages.create", databaseId)>>)

getBlock(n, blockId, fail) ==
    Guarded("getBlock", n, blockId, "block:read", Null, fail,
            <<ApiCall("blocks.retrieve", blockId)>>)

getBlockChildren(n, blockId, fail) ==
    Guarded("getBlockChildren", n, blockId, "block:read", Null, fail,
            <<ApiCall("blocks.children.list", blockId)>>)

appendBlockChildren(n, blockId, fail) ==
    Guarded("appendBlockChildren", n, blockId, "block:append", Null, fail,
            <<ApiCall("blocks.children.append", blockId)>>)

deleteBlock(n, blockId, fail) ==
    Guarded("deleteBlock", n, blockId, "block:delete", Null, fail,
            <<ApiCall("blocks.delete", blockId)>>)

NextClient ==
    \/ \E n \in Nodes : \E fail \in {{}, {n}} : getPage(n, Spelling(n), fail)
    \/ \E n \in Nodes : \E fail \in {{}, {n}} :
         \E parentType \in {"page_id", "database_id", "workspace"} :
            createPage(n, parentType, Spelling(n), fail)
    \/ \E n \in Nodes : \E fail \in {{}, {n}} : updatePage(n, Spelling(n), fail)
    \/ \E n \in Nodes : \E fail \in {{}, {n}} : getDatabase(n, Spelling(n), fail)
    \/ \E n \in Nodes : \E fail \in {{}, {n}} : \E hasDataSource \in BOOLEAN :
            queryDatabase(n, Spelling(n), hasDataSource, fail)
    \/ \E n \in Nodes : \E fail \in {{}, {n}} :
            createDatabasePage(n, Spelling(n), fail)
    \/ \E n \in Nodes : \E fail \in {{}, {n}} : getBlock(n, Spelling(n), fail)
    \/ \E n \in Nodes : \E fail \in {{}, {n}} :
            getBlockChildren(n, Spelling(n), fail)
    \/ \E n \in Nodes : \E fail \in {{}, {n}} :
            appendBlockChildren(n, Spelling(n), fail)
    \/ \E n \in Nodes : \E fail \in {{}, {n}} : deleteBlock(n, Spelling(n), fail)
    \/ Exit

SpecClient == Init /\ [][NextClient]_vars

\* The operation each method is to be checked for.
OperationOf ==
    [getPage |-> "page:read", createPage |-> "page:create",
     updatePage |-> "page:update", getDatabase |-> "database:read",
     queryDatabase |-> "database:query",
     createDatabasePage |-> "database:create", getBlock |-> "block:read",
     getBlockChildren |-> "block:read", appendBlockChildren |-> "block:append",
     deleteBlock |-> "block:delete"]

ClientCalled == last.call \in DOMAIN OperationOf

\* C16: a client operation forwards its call only after a decision that
\* allowed its operation on its target (the parent, for a creation); a
\* denied operation throws PERMISSION_DENIED and forwards nothing.
C16_CheckBeforeForward ==
    ClientCalled
    => /\ last.forwarded # <<>>
            => /\ last.checked /\ last.allowed /\ ~last.threw
               /\ last.operation = OperationOf[last.call]
               /\ last.resourceId = last.targetId
       /\ (last.checked /\ ~last.threw /\ ~last.allowed)
            => (last.error = "PERMISSION_DENIED" /\ last.forwarded = <<>>)
       /\ last.checked => last.operation = OperationOf[last.call]

C16_Witness ==
    /\ ClientCalled /\ last.call = "deleteBlock"
    /\ last.checked /\ ~last.allowed /\ last.rule # NoRule
    /\ last.error = "PERMISSION_DENIED" /\ last.forwarded = <<>>

(***************************************************************************)
(* SpecReadme: the configuration example of the README, with the page      *)
(* filed in the tasks database assigned to "me" or to someone else.        *)
(***************************************************************************)
\* docs-readonly names a page outside the tasks database.
RuleDocsReadonly ==
    [name |-> "docs-readonly", pageId |-> ApiId(0), databaseId |-> Null,
     permissions |-> {"page:read", "block:read"}, condition |-> NoCondition]

ReadmeConfig ==
    [rules |-> <<RuleDocsReadonly,
                 [RuleTasksDb EXCEPT !.databaseId = ApiId(2)],
                 [RuleMyTasks EXCEPT !.databaseId = ApiId(2)]>>,
     defaultPermission |-> "deny"]

\* Every page assigned to someone else.
PropertiesOfOthers(nodes) == [n \in nodes |-> PropertiesOf(nodes)[0]]

InitReadme ==
    /\ remote \in Workspaces
    /\ props \in {PropertiesOf(Nodes), PropertiesOfOthers(Nodes)}
    /\ config = ReadmeConfig
    /\ parentCache = EmptyCache
    /\ now = 0
    /\ last = IdleCall
    /\ pending = <<>>

SpecReadme == InitReadme /\ [][Next]_vars

\* C17: under the README's rules, page:update on a page filed directly in
\* the tasks database is allowed exactly when the page's Assignee contains
\* the expected user.
C17_ReadmeExample ==
    (/\ Decided /\ config = ReadmeConfig /\ last.fail = {}
     /\ last.node = 1 /\ remote[1].kind = "page" /\ remote[2].kind = "database"
     /\ last.operation = "page:update")
    => (last.allowed
          <=> JsString("me") \in props[1].properties["Assignee"].value)

(***************************************************************************)
(* SpecInstances: two NotionSafeClient instances in one process.  Both     *)
(* reach the one module-level parentCache of permissions.ts.  last.own     *)
(* keeps, for comparison, the cache each instance would hold if its        *)
(* lookups and clearCache calls touched a cache of its own.                *)
(***************************************************************************)
Instances == {1, 2}

IdleInstances == [call |-> Idle, own |-> [i \in Instances |-> EmptyCache]]

InitInstances ==
    /\ remote \in Workspaces
    /\ props = PropertiesOf(Nodes)
    /\ config = [rules |-> <<>>, defaultPermission |-> "deny"]
    /\ parentCache = EmptyCache
    /\ now = 0
    /\ last = IdleInstances
    /\ pending = <<>>

\* A hierarchy lookup made on behalf of instance i.
LookupThrough(i, n, resourceId, fail) ==
    /\ \E r \in {getParentId(parentCache, now, fail, resourceId)} :
       \E o \in {getParentId(last.own[i], now, fail, resourceId)} :
           /\ parentCache' = r.cache
           /\ last' = [call |-> "getParentId", instance |-> i, node |-> n,
                       resourceId |-> resourceId, fail |-> fail,
                       entry |-> EntryAt(parentCache, normalizeId(resourceId)),
                       value |-> r.value, probes |-> r.probes,
                       ownValue |-> o.value, ownProbes |-> o.probes,
                       own |-> [last.own EXCEPT ![i] = o.cache]]
    /\ UNCHANGED <<remote, props, config, now, pending>>

\* instance.clearCache()
ClearCacheThrough(i) ==
    /\ parentCache' = clearCache(parentCache)
    /\ last' = [call |-> "clearCache", instance |-> i,
                own |-> [last.own EXCEPT ![i] = EmptyCache]]
    /\ UNCHANGED <<remote, props, config, now, pending>>

NextInstances ==
    \/ \E i \in Instances : \E n \in CachedNodes :
         \E resourceId \in Spellings(n) : \E fail \in {{}, {n}} :
            LookupThrough(i, n, resourceId, fail)
    \/ \E i \in Instances : ClearCacheThrough(i)

SpecInstances == InitInstances /\ [][NextInstances]_vars

\* C18 as stated: a lookup through an instance issues the retrievals and
\* obtains the parent pointer it would with a cache of its own, whatever
\* the other instance has looked up or cleared.
C18_NoInterference ==
    LookedUp
    => (last.probes = last.ownProbes /\ last.value = last.ownValue)

\* C18: the instances of a process share one cache.  A lookup through any
\* instance issues no retrieval exactly when the shared cache holds an
\* unexpired entry for the id, whichever instance wrote it, and returns
\* that entry's value; clearCache through any instance empties the cache
\* for all.
C18_SharedCache ==
    /\ LookedUp
         => /\ last.probes = 0 <=> last.entry # NoEntry
            /\ last.entry # NoEntry => last.value = last.entry.value
    /\ last.call = "clearCache" => parentCache = EmptyCache

C18_Witness ==
    /\ LookedUp /\ last.instance = 2
    /\ last.probes = 0 /\ last.ownProbes > 0
    /\ last.value # Null /\ last.ownValue # Null

(***************************************************************************)
(* SpecDecide: checkPermission called again and again in one process,      *)
(* every retrieval succeeding, so that later decisions find the cache      *)
(* filled by earlier ones.                                                 *)
(***************************************************************************)
DecideOperations == {"page:read", "page:update"}

Decide(n, resourceId, operation) ==
    /\ last = IdleCall
    /\ \E r \in {checkPermission(parentCache, now, {}, config, resourceId,
                                 operation, ConditionTarget(resourceId, operation))} :
           /\ parentCache' = r.cache
           /\ last' = [call |-> "checkPermission", node |-> n,
                       resourceId |-> resourceId, operation |-> operation,
                       pageIdForCondition |-> ConditionTarget(resourceId, operation),
                       fail |-> {}, cached |-> DOMAIN parentCache,
                       allowed |-> r.allowed, rule |-> r.rule,
                       reason |-> r.reason, conditionChecked |-> r.conditionChecked,
                       lookups |-> r.lookups, probes |-> r.probes,
                       threw |-> r.threw]
    /\ UNCHANGED <<remote, props, config, now, pending>>

\* The decision has been handed to the caller; the process lives on.
Return ==
    /\ last # IdleCall
    /\ last' = IdleCall
    /\ UNCHANGED <<remote, props, config, parentCache, now, pending>>

NextDecide ==
    \/ \E n \in Nodes : \E operation \in DecideOperations :
            Decide(n, Spelling(n), operation)
    \/ Return

SpecDecide == Init /\ [][NextDecide]_vars

\* The same call in a process whose cache is empty.
Cold ==
    checkPermission(EmptyCache, now, {}, config, last.resourceId,
                    last.operation, last.pageIdForCondition)

\* C19: with every retrieval succeeding, a decision taken with the cache as
\* earlier decisions left it has the allowed value, the matched rule and
\* the reason of the decision taken with an empty cache, and issues no
\* more retrievals.
C19_CacheTransparent ==
    Decided
    => /\ last.allowed = Cold.allowed
       /\ last.rule = Cold.rule
       /\ last.reason = Cold.reason
       /\ last.probes <= Cold.probes

C19_Witness ==
    /\ Decided /\ last.cached # {}
    /\ last.rule = 2
    /\ last.lookups > 0 /\ last.probes = 0
    /\ Cold.probes > 0

(***************************************************************************)
(* SpecAsync: getParentId calls for one resource running concurrently.     *)
(* JavaScript runs a call without interruption up to its next await; each  *)
(* await of a retrieval is a point where other calls run.  pending holds   *)
(* every call started: where it waits (pc), the id it was given, the time  *)
(* it read at its start, and what it returned once done.                   *)
(***************************************************************************)
MaxCalls == 2          \* getParentId calls started in SpecAsync

\* The resource all the calls ask about: a database or a page.
AsyncNode == 2

AsyncSpellings == {ApiId(AsyncNode), UpperId(AsyncNode)}

Done(call, value) == [call EXCEPT !.pc = "done", !.value = value]

\* The synchronous prefix of getParentId: the cache test, and on a miss
\* the first retrieval is issued.
StartStep(cache, t, fail, resourceId) ==
    LET normalizedId == normalizeId(resourceId)
        call == [resourceId |-> resourceId, normalizedId |-> normalizedId,
                 t |-> t, fail |-> fail, pc |-> "page", value |-> Null,
                 probes |-> 0]
    IN  IF CacheLive(cache, t, normalizedId)
        THEN Done(call, cache[normalizedId].value)
        ELSE [call EXCEPT !.probes = 1]

\* mutant: the entry is stored under the id as the caller spelled it
ResumeStep_rawKey(cache, call) ==
    LET response == Retrieve(call.fail, call.resourceId, call.pc)
        parentId == IF call.pc = "page" THEN PageParentId(response.parent)
                    ELSE IF call.pc = "block" THEN BlockParentId(response.parent)
                    ELSE DatabaseParentId(response.parent)
        entry(value) == [value |-> value, expiresAt |-> call.t + CACHE_TTL_MS]
    IN  IF response.ok
        THEN [cache |-> CacheSet(cache, call.resourceId, entry(parentId)),
              call |-> Done(call, parentId)]
        ELSE IF call.pc = "page"
        THEN [cache |-> cache,
              call |-> [call EXCEPT !.pc = "block", !.probes = 2]]
        ELSE IF call.pc = "block"
        THEN [cache |-> cache,
              call |-> [call EXCEPT !.pc = "database", !.probes = 3]]
        ELSE [cache |-> CacheSet(cache, call.resourceId, entry(Null)),
              call |-> Done(call, Null)]

\* The continuation of getParentId after the retrieval it awaits: a
\* response is decoded, cached and returned; an exception leads to the next
\* retrieval, or after the third to caching and returning null.
ResumeStep(cache, call) ==
    LET response == Retrieve(call.fail, call.resourceId, call.pc)
        parentId == IF call.pc = "page" THEN PageParentId(response.parent)
                    ELSE IF call.pc = "block" THEN BlockParentId(response.parent)
                    ELSE DatabaseParentId(response.parent)
        entry(value) == [value |-> value, expiresAt |-> call.t + CACHE_TTL_MS]
    IN  IF response.ok
        THEN [cache |-> CacheSet(cache, call.normalizedId, entry(parentId)),
              call |-> Done(call, parentId)]
        ELSE IF call.pc = "page"
        THEN [cache |-> cache,
              call |-> [call EXCEPT !.pc = "block", !.probes = 2]]
        ELSE IF call.pc = "block"
        THEN [cache |-> cache,
              call |-> [call EXCEPT !.pc = "database", !.probes = 3]]
        ELSE [cache |-> CacheSet(cache, call.normalizedId, entry(Null)),
              call |-> Done(call, Null)]

InitAsync ==
    /\ remote \in Workspaces
    /\ props = PropertiesOf(Nodes)
    /\ config = [rules |-> <<>>, defaultPermission |-> "deny"]
    /\ parentCache = EmptyCache
    /\ now = 0
    /\ last = IdleCall
    /\ pending = <<>>

StartCall(resourceId, fail) ==
    /\ Len(pending) < MaxCalls
    /\ pending' = Append(pending, StartStep(parentCache, now, fail, resourceId))
    /\ UNCHANGED <<remote, props, config, parentCache, now, last>>

ResumeCall(k) ==
    /\ pending[k].pc # "done"
    /\ \E step \in {ResumeStep(parentCache, pending[k])} :
           /\ parentCache' = step.cache
           /\ pending' = [pending EXCEPT ![k] = step.call]
    /\ UNCHANGED <<remote, props, config, now, last>>

\* Date.now() moves on by a millisecond.
TickAsync ==
    /\ now < MaxCalls
    /\ now' = now + 1
    /\ UNCHANGED <<remote, props, config, parentCache, last, pending>>

NextAsync ==
    \/ \E resourceId \in AsyncSpellings : \E fail \in {{}, {AsyncNode}} :
            StartCall(resourceId, fail)
    \/ \E k \in DOMAIN pending : ResumeCall(k)
    \/ TickAsync

SpecAsync == InitAsync /\ [][NextAsync]_vars

AllDone == \A k \in DOMAIN pending : pending[k].pc = "done"
NoneFailed == \A k \in DOMAIN pending : pending[k].fail = {}

\* The parent the API reports for the resource.
RemoteParent == ProbeParent({}, ApiId(AsyncNode)).value

\* C20: once concurrent lookups of one id have all completed against an
\* API that answered every one of them, each has returned the remote
\* parent, and the cache holds one entry, under the normalized id, whose
\* value is that parent.
C20_ConcurrentLookups ==
    (pending # <<>> /\ AllDone /\ NoneFailed)
    => /\ \A k \in DOMAIN pending : pending[k].value = RemoteParent
       /\ DOMAIN parentCache = {CanonId(AsyncNode)}
       /\ parentCache[CanonId(AsyncNode)].value = RemoteParent
       /\ \E k \in DOMAIN pending :
             parentCache[CanonId(AsyncNode)].expiresAt
                = pending[k].t + CACHE_TTL_MS

C20_Witness ==
    /\ Len(pending) = 2 /\ AllDone /\ NoneFailed
    /\ pending[1].probes > 0 /\ pending[2].probes > 0
    /\ pending[1].resourceId # pending[2].resourceId
    /\ pending[1].t < pending[2].t
    /\ parentCache[CanonId(AsyncNode)].expiresAt = pending[1].t + CACHE_TTL_MS
    /\ RemoteParent # Null

(***************************************************************************)
(* SpecDeep: decisions and walks on the chains of DeepWorkspaces, which    *)
(* are longer than the walk's bound and, looped, never reach the root.     *)
(***************************************************************************)
DeepConfigs ==
    {[rules |-> rules, defaultPermission |-> "deny"] :
        rules \in {<<RuleDocsReadonly>>, <<RuleDocsReadonly, RuleTasksDb>>,
                   <<RuleDocsReadonly, RuleDocs>>, <<RuleDocs, RuleEditors>>}}

DeepFails == {{}} \cup {{m} : m \in {1, DefaultMaxDepth}}

InitDeep ==
    /\ remote \in DeepWorkspaces
    /\ props = PropertiesOf(DeepNodes)
    /\ config \in DeepConfigs
    /\ parentCache = EmptyCache
    /\ now = 0
    /\ last = IdleCall
    /\ pending = <<>>

NextDeep ==
    \/ \E n \in DeepNodes : \E operation \in DecideOperations :
         \E fail \in DeepFails :
            EnsurePermission(n, Spelling(n), operation, fail)
    \/ \E n \in DeepNodes : \E a \in DeepNodes : \E fail \in DeepFails :
            IsDescendantOfCall(n, a, DefaultMaxDepth, fail)
    \/ Exit

SpecDeep == InitDeep /\ [][NextDeep]_vars

\* C21: a walk makes at most maxDepth parent lookups, on a cycle as on a
\* chain deeper than the bound; a decision makes at most maxDepth lookups
\* per rule, each of at most three retrievals, and at most one property
\* fetch.
C21_BoundedWalk ==
    /\ Walked => (last.lookups <= last.maxDepth
                  /\ last.probes <= 3 * last.lookups)
    /\ Decided => /\ last.lookups <= Len(config.rules) * DefaultMaxDepth
                  /\ last.probes <= 3 * last.lookups
                  /\ last.conditionChecked \in BOOLEAN

C21_Witness ==
    /\ Decided /\ Len(config.rules) = 2
    /\ remote[DefaultMaxDepth + 1].parent.type = "page_id"
    /\ last.lookups = 2 * DefaultMaxDepth

(***************************************************************************)
(* Negative caching (SpecCache).                                           *)
(***************************************************************************)
LastEntryLive == last.entry # NoEntry /\ last.entry.expiresAt > last.t

\* C22: a lookup that misses the cache and whose page, block and database
\* retrievals all throw returns null and stores a null entry expiring
\* CACHE_TTL_MS after the call; while that entry is live every lookup of
\* the id returns null without a retrieval, also when the retrievals
\* would by then succeed.
C22_NegativeCaching ==
    LookedUp
    => /\ (~LastEntryLive /\ last.node \in last.fail)
            => /\ last.value = Null /\ last.probes = 3 /\ ~last.threw
               /\ EntryAt(parentCache, LookedUpKey)
                    = [value |-> Null, expiresAt |-> last.t + CACHE_TTL_MS]
       /\ (LastEntryLive /\ last.entry.value = Null)
            => (last.value = Null /\ last.probes = 0)

C22_Witness ==
    /\ LookedUp /\ LastEntryLive
    /\ last.entry.value = Null
    /\ last.fail = {}
    /\ ProbeParent({}, last.resourceId).value # Null
    /\ last.t > 0
    /\ last.value = Null /\ last.probes = 0

(***************************************************************************)
(* SpecProbe: lookups and walks on three resources 0 -> 1 -> 2, where      *)
(* resource 1 is of every kind and prints every shape of parent object,    *)
(* each call in a fresh process.                                           *)
(***************************************************************************)
ProbeNodes == {0, 1, 2}

Kinds == {"page", "block", "database"}

ParentShapes == {"page_id", "database_id", "data_source_id", "data_source_only",
                 "block_id", "workspace"}

\* The parent object of each shape, pointing at node p.  A data source
\* parent names the data source, and the database only when the API
\* prints the database_id field.
ShapedParent(shape, p) ==
    CASE shape = "page_id" ->
            [type |-> "page_id", id |-> ApiId(p), database_id |-> Null]
      [] shape = "database_id" ->
            [type |-> "database_id", id |-> ApiId(p), database_id |-> Null]
      [] shape = "data_source_id" ->
            [type |-> "data_source_id", id |-> ApiId(0), database_id |-> ApiId(p)]
      [] shape = "data_source_only" ->
            [type |-> "data_source_id", id |-> ApiId(p), database_id |-> Null]
      [] shape = "block_id" ->
            [type |-> "block_id", id |-> ApiId(p), database_id |-> Null]
      [] OTHER -> WorkspaceParent

ProbeWorkspaces ==
    {[n \in ProbeNodes |->
        IF n = 0
        THEN [kind |-> "block", parent |-> ParentObject("blockInPages", "block", 1, kind)]
        ELSE IF n = 1
        THEN [kind |-> kind, parent |-> ShapedParent(shape, 2)]
        ELSE [kind |-> "page", parent |-> WorkspaceParent]] :
      kind \in Kinds, shape \in ParentShapes}

InitProbe ==
    /\ remote \in ProbeWorkspaces
    /\ props = PropertiesOf(ProbeNodes)
    /\ config = [rules |-> <<>>, defaultPermission |-> "deny"]
    /\ parentCache = EmptyCache
    /\ now = 0
    /\ last = IdleCall
    /\ pending = <<>>

\* getParentId in a fresh process: the cache is empty, the cascade runs.
ProbeCall(n, resourceId, fail) ==
    /\ last = IdleCall
    /\ \E r \in {getParentId(parentCache, now, fail, resourceId)} :
         \E fetched \in {ProbeParent(fail, resourceId)} :
           /\ parentCache' = r.cache
           /\ last' = [call |-> "getParentId", node |-> n,
                       resourceId |-> resourceId, t |-> now, fail |-> fail,
                       value |-> r.value, probes |-> r.probes, threw |-> r.threw,
                       kinds |-> IF r.probes = 0 THEN <<>> ELSE fetched.kinds]
    /\ UNCHANGED <<remote, props, config, now, pending>>

NextProbe ==
    \/ \E n \in ProbeNodes : \E resourceId \in Spellings(n) :
         \E fail \in {{}, {n}} : ProbeCall(n, resourceId, fail)
    \/ \E n \in ProbeNodes : \E a \in ProbeNodes : \E fail \in {{}, {1}} :
            IsDescendantOfCall(n, a, DefaultMaxDepth, fail)
    \/ Exit

SpecProbe == InitProbe /\ [][NextProbe]_vars

ProbeOrder == <<"page", "block", "database">>

\* The retrieval of last.node as `kind` succeeds during the last call.
Retrievable(kind) == remote[last.node].kind = kind /\ last.node \notin last.fail

\* C23: on a miss the retrievals issued are a prefix of page, block,
\* database; a retrieval is issued only after every earlier one threw, and
\* none is issued after one that succeeded, also when the parent it
\* printed cannot be decoded.
C23_ProbeOrder ==
    LookedUp
    => /\ Len(last.kinds) \in 1..3
       /\ last.probes = Len(last.kinds)
       /\ \A i \in 1..Len(last.kinds) :
            /\ last.kinds[i] = ProbeOrder[i]
            /\ i < Len(last.kinds) => ~Retrievable(ProbeOrder[i])
       /\ Len(last.kinds) < 3 => Retrievable(ProbeOrder[Len(last.kinds)])

C23_Witness ==
    /\ LookedUp
    /\ last.node = 1 /\ remote[1].kind = "page"
    /\ remote[1].parent.type = "workspace"
    /\ last.fail = {}
    /\ last.kinds = <<"page">> /\ last.value = Null

\* The parent shapes the specification lists as decodable, by kind.
Decodable(node) ==
    LET kind == remote[node].kind
        parent == remote[node].parent
    IN  \/ kind = "page" /\ parent.type \in {"page_id", "database_id"}
        \/ kind = "page" /\ parent.type = "data_source_id"
                         /\ parent.database_id # Null
        \/ kind = "block" /\ parent.type \in {"page_id", "database_id", "block_id"}
        \/ kind = "database" /\ parent.type = "page_id"

\* C30: a lookup that retrieves the resource returns a parent exactly for
\* the shapes page: page_id, database_id, data_source_id with database_id;
\* block: page_id, database_id, block_id; database: page_id, and then the
\* id that shape names; for any other shape it returns and caches null,
\* and a walk that has to pass through such a resource answers false.
C30_ParentDecoding ==
    /\ (LookedUp /\ last.node \notin last.fail)
         => /\ (last.value # Null) <=> Decodable(last.node)
            /\ (last.node = 1 /\ last.value # Null)
                 => idsMatch(last.value, CanonId(2))
            /\ EntryAt(parentCache, LookedUpKey)
                 = [value |-> last.value, expiresAt |-> last.t + CACHE_TTL_MS]
    /\ (Walked /\ last.fail = {} /\ last.node # 2 /\ last.ancestor = 2)
         => (last.result <=> Decodable(1))

C30_Witness ==
    /\ Walked /\ last.fail = {}
    /\ last.node = 0 /\ last.ancestor = 2
    /\ remote[1].kind = "page" /\ remote[1].parent.type = "block_id"
    /\ ~last.result

(***************************************************************************)
(* Type-specific matching (SpecCondition).                                 *)
(***************************************************************************)
\* The evaluated call retrieved a page that reports the condition's
\* property with the condition's type.
TypeMatched ==
    /\ Evaluated
    /\ remote[last.node].kind = "page" /\ last.node \notin last.fail
    /\ props[last.node].hasProperties
    /\ last.condition.property \in DOMAIN Reported
    /\ Reported[last.condition.property].type = last.condition.type

\* C24: for a property of the condition's type the evaluation is true
\* exactly when -- people: some person's id is the expected value; select
\* and status: an option is selected and its name is the expected value;
\* multi_select: some selected option's name is the expected value;
\* checkbox: the boolean is the expected value.
C24_TypeSpecificMatching ==
    TypeMatched
    => LET value == Reported[last.condition.property].value
           expected == last.condition.equals
           type == last.condition.type
       IN  last.result
             <=> CASE type = "people" -> \E person \in value : person = expected
                   [] type \in {"select", "status"} ->
                        value # JsNull /\ value = expected
                   [] type = "multi_select" ->
                        \E option \in value : option = expected
                   [] type = "checkbox" -> value = expected

C24_Witness ==
    /\ TypeMatched /\ last.result
    /\ last.condition.type = "people"
    /\ Reported[last.condition.property].value
         = {JsString("me"), JsString("other")}

(***************************************************************************)
(* SpecMalformed: decisions under rule lists holding a rule with neither   *)
(* scope id and a rule with both, which RuleSchema lets through (both keys *)
(* are optional).                                                          *)
(***************************************************************************)
RuleNoScope ==
    [name |-> "no-scope", pageId |-> Null, databaseId |-> Null,
     permissions |-> GranularPermissionValues, condition |-> NoCondition]
RuleBoth ==
    [name |-> "both", pageId |-> UpperId(0), databaseId |-> CanonId(2),
     permissions |-> {"page:read", "database:read"}, condition |-> NoCondition]

MalformedConfigs ==
    {[rules |-> rules, defaultPermission |-> d] :
        rules \in {<<RuleNoScope>>, <<RuleNoScope, RuleDocs>>,
                   <<RuleNoScope, RuleBoth>>, <<RuleBoth>>,
                   <<RuleBoth, RuleTasksDb>>},
        d \in {"deny", "read"}}

InitMalformed ==
    /\ remote \in Workspaces
    /\ props = PropertiesOf(Nodes)
    /\ config \in MalformedConfigs
    /\ parentCache = EmptyCache
    /\ now = 0
    /\ last = IdleCall
    /\ pending = <<>>

SpecMalformed == InitMalformed /\ [][Next]_vars

Unscoped(rule) == rule.pageId = Null /\ rule.databaseId = Null
DoublyScoped(rule) == rule.pageId # Null /\ rule.databaseId # Null

\* The page scope of a rule alone: the page itself and what descends
\* from it.
InPageScope(rule, id) ==
    idsMatch(id, rule.pageId) \/ WithinHops(id, rule.pageId, DefaultMaxDepth)

\* C25: a rule with neither pageId nor databaseId is never the matched
\* rule, costs no lookup and raises nothing, and the rule after it or the
\* default policy decides; a rule with both is the matched rule exactly
\* for the resources in its page scope.
C25_MalformedNeverMatch ==
    Decided
    => /\ ~last.threw
       /\ \A i \in 1..Len(config.rules) :
            Unscoped(config.rules[i]) => last.rule # i
       /\ config.rules = <<RuleNoScope>>
            => /\ last.rule = NoRule
               /\ last.lookups = 0 /\ last.probes = 0
               /\ parentCache = EmptyCache
               /\ config.defaultPermission = "deny" => ~last.allowed
       /\ (Len(config.rules) = 2 /\ Unscoped(config.rules[1]))
            => (last.rule = 2 <=> InScope(config.rules[2], last.resourceId))
       /\ DoublyScoped(config.rules[1])
            => (last.rule = 1 <=> InPageScope(config.rules[1], last.resourceId))

C25_Witness ==
    /\ Decided
    /\ config.rules = <<RuleNoScope, RuleBoth>>
    /\ remote[2].kind = "database"
    /\ last.node = 1 /\ last.fail = {}
    /\ last.rule = NoRule

(***************************************************************************)
(* SpecStale: one long-running process in which time passes, a page is     *)
(* moved in Notion from under the rule's page to the workspace root,       *)
(* lookups of it wait on their retrieval, and decisions are taken.         *)
(* last.movedAt is the time of the move (-1 before it).                    *)
(***************************************************************************)
MovedNode == 1

StaleConfig == [rules |-> <<RuleDocs>>, defaultPermission |-> "deny"]

IdleStale == [call |-> Idle, movedAt |-> 0 - 1]

InitStale ==
    /\ remote = Chain("blockInPages", 3, FALSE)
    /\ props = PropertiesOf(DOMAIN remote)
    /\ config = StaleConfig
    /\ parentCache = EmptyCache
    /\ now = 0
    /\ last = IdleStale
    /\ pending = <<>>

\* Someone moves the page in Notion.
Move ==
    /\ last.movedAt < 0
    /\ remote' = [remote EXCEPT ![MovedNode].parent = WorkspaceParent]
    /\ last' = [call |-> "move", movedAt |-> now]
    /\ UNCHANGED <<props, config, parentCache, now, pending>>

\* A getParentId call of its own, which waits on its retrievals.
StartLookup(resourceId, fail) ==
    /\ pending = <<>>
    /\ pending' = <<StartStep(parentCache, now, fail, resourceId)>>
    /\ UNCHANGED <<remote, props, config, parentCache, now, last>>

\* checkPermission whose retrievals are answered at once.
StaleDecide(n, resourceId) ==
    /\ \E r \in {checkPermission(parentCache, now, {}, config, resourceId,
                                  "page:read", Null)} :
           /\ parentCache' = r.cache
           /\ last' = [call |-> "checkPermission", node |-> n,
                       resourceId |-> resourceId, operation |-> "page:read",
                       t |-> now, fail |-> {}, movedAt |-> last.movedAt,
                       entry |-> EntryAt(parentCache, normalizeId(resourceId)),
                       allowed |-> r.allowed, rule |-> r.rule,
                       lookups |-> r.lookups, probes |-> r.probes,
                       threw |-> r.threw]
    /\ UNCHANGED <<remote, props, config, now, pending>>

NextStale ==
    \/ Move
    \/ \E resourceId \in Spellings(MovedNode) : \E fail \in {{}, {MovedNode}} :
            StartLookup(resourceId, fail)
    \/ \E k \in DOMAIN pending : ResumeCall(k)
    \/ \E n \in {0, MovedNode} : StaleDecide(n, Spelling(n))
    \/ Tick

SpecStale == InitStale /\ [][NextStale]_vars

\* The step writes the entry under key.
Written(key) ==
    key \notin DOMAIN parentCache \/ parentCache'[key] # parentCache[key]

\* The step is the completion of a waiting lookup of key, started at t.
CompletedLookup(key, t) ==
    \E k \in DOMAIN pending :
        /\ pending[k].pc # "done" /\ pending'[k].pc = "done"
        /\ pending[k].normalizedId = key /\ pending[k].t = t

\* The step is a decision taken at time t.
TookDecision(t) == last'.call = "checkPermission" /\ last'.t = t /\ now = t
                   /\ pending' = pending

\* A decision on the moved page that was answered from the cache used an
\* entry whose lookup began less than CACHE_TTL_MS before; a decision begun
\* more than CACHE_TTL_MS after the move does not attach the rule.
FreshEnough ==
    Decided
    => /\ (last.node = MovedNode /\ last.probes = 0)
            => /\ last.entry # NoEntry
               /\ last.t - (last.entry.expiresAt - CACHE_TTL_MS) < CACHE_TTL_MS
       /\ (last.movedAt >= 0 /\ last.t > last.movedAt + CACHE_TTL_MS)
            => last.rule = NoRule

\* C26: every entry written expires CACHE_TTL_MS after the start of the
\* lookup that writes it, however late the lookup completes; hence no
\* pointer is served more than CACHE_TTL_MS after its lookup began, and a
\* page moved out of a rule's scope no longer matches the rule in any
\* decision begun more than CACHE_TTL_MS after the move.
C26_BoundedStaleness ==
    [][/\ \A key \in DOMAIN parentCache' :
            Written(key)
            => LET t == parentCache'[key].expiresAt - CACHE_TTL_MS
               IN  CompletedLookup(key, t) \/ TookDecision(t)
       /\ FreshEnough']_vars

C26_Witness ==
    /\ Decided /\ last.node = MovedNode
    /\ last.movedAt >= 0 /\ last.t > last.movedAt + CACHE_TTL_MS
    /\ last.entry # NoEntry /\ last.entry.value # Null
    /\ last.probes > 0 /\ last.rule = NoRule

(***************************************************************************)
(* SpecSearch: NotionSafeClient.search, each call in a fresh process.      *)
(***************************************************************************)
RuleQueryOnly ==
    [name |-> "query-only", pageId |-> Null, databaseId |-> CanonId(2),
     permissions |-> {"database:query"}, condition |-> NoCondition]

SearchConfigs ==
    Configs \cup {[rules |-> rules, defaultPermission |-> d] :
                     rules \in {<<RuleQueryOnly>>, <<RuleQueryOnly, RuleMyTasks>>,
                                <<RuleQueryOnly, RuleDocs>>},
                     d \in {"deny", "read"}}

SearchReadPermissions == {"page:read", "database:read", "block:read"}

\* mutant: the default permission is not consulted
hasReadPermission_ignoreDefault(cfg) ==
    \E i \in 1..Len(cfg.rules) :
        \E perm \in cfg.rules[i].permissions : perm \in SearchReadPermissions

\* const hasReadPermission = ...
hasReadPermission(cfg) ==
    \/ cfg.defaultPermission = "read"
    \/ \E i \in 1..Len(cfg.rules) :
          \E perm \in cfg.rules[i].permissions : perm \in SearchReadPermissions

Queries == {<<>>, <<"q">>}

InitSearch ==
    /\ remote \in Workspaces
    /\ props = PropertiesOf(Nodes)
    /\ config \in SearchConfigs
    /\ parentCache = EmptyCache
    /\ now = 0
    /\ last = IdleCall
    /\ pending = <<>>

\* search(params): the gate, then this.client.search(params), whose answer
\* is returned as it comes.
search(query) ==
    /\ last = IdleCall
    /\ last' = [call |-> "search", query |-> query,
                error |-> IF hasReadPermission(config) THEN NoError
                          ELSE "PERMISSION_DENIED",
                forwarded |-> IF hasReadPermission(config)
                              THEN <<ApiCall("search", query)>> ELSE <<>>,
                checked |-> FALSE]
    /\ UNCHANGED <<remote, props, config, parentCache, now, pending>>

NextSearch ==
    \/ \E query \in Queries : search(query)
    \/ Exit

SpecSearch == InitSearch /\ [][NextSearch]_vars

Searched == last.call = "search"

\* Some configured rule grants page:read, database:read or block:read.
SomeRuleReads ==
    \E i \in 1..Len(config.rules) :
        config.rules[i].permissions
            \cap {"page:read", "database:read", "block:read"} # {}

\* C27: search forwards the query exactly when defaultPermission is "read"
\* or some rule grants page:read, database:read or block:read; otherwise
\* it throws PERMISSION_DENIED and forwards nothing; it consults neither
\* checkPermission nor the hierarchy.
C27_SearchGate ==
    Searched
    => /\ (config.defaultPermission = "read" \/ SomeRuleReads)
            => /\ last.error = NoError
               /\ last.forwarded = <<ApiCall("search", last.query)>>
       /\ ~(config.defaultPermission = "read" \/ SomeRuleReads)
            => (last.error = "PERMISSION_DENIED" /\ last.forwarded = <<>>)
       /\ ~last.checked
       /\ parentCache = EmptyCache

C27_Witness ==
    /\ Searched
    /\ config.defaultPermission = "deny"
    /\ config.rules = <<RuleQueryOnly, RuleMyTasks>>
    /\ last.error = "PERMISSION_DENIED" /\ last.forwarded = <<>>

(***************************************************************************)
(* SpecClear: clearCache() called while getParentId calls wait on their    *)
(* retrievals.  last.startedBefore counts the calls started before the     *)
(* latest clearCache().                                                    *)
(***************************************************************************)
ClearWhilePending ==
    /\ parentCache' = clearCache(parentCache)
    /\ last' = [call |-> "clearCache", startedBefore |-> Len(pending)]
    /\ UNCHANGED <<remote, props, config, now, pending>>

NextClear ==
    \/ \E resourceId \in AsyncSpellings : \E fail \in {{}, {AsyncNode}} :
            StartCall(resourceId, fail)
    \/ \E k \in DOMAIN pending : ResumeCall(k)
    \/ ClearWhilePending

SpecClear == InitAsync /\ [][NextClear]_vars

\* C28: however clearCache() interleaves with a lookup started before it,
\* the cache holds at most the one entry under the normalized id, and the
\* first lookup of the id started after clearCache() issues a retrieval.
C28_ClearVsInFlight ==
    /\ DOMAIN parentCache \subseteq {CanonId(AsyncNode)}
    /\ (last.call = "clearCache" /\ Len(pending) > last.startedBefore)
         => pending[last.startedBefore + 1].probes > 0

(***************************************************************************)
(* SpecNonPage: the client's operations under rules that declare a         *)
(* condition and grant write-class operations on databases and blocks.     *)
(***************************************************************************)
RuleDbEditors ==
    [name |-> "db-editors", pageId |-> Null, databaseId |-> ApiId(2),
     permissions |-> {"database:create", "page:create", "page:update",
                      "block:append", "block:delete"},
     condition |-> PeopleCondition]

NonPageConfigs ==
    {[rules |-> rules, defaultPermission |-> d] :
        rules \in {<<RuleEditors>>, <<RuleDbEditors>>, <<RuleDbEditors, RuleEditors>>},
        d \in {"deny", "read"}}

InitNonPage ==
    /\ remote \in Workspaces
    /\ props = PropertiesOf(Nodes)
    /\ config \in NonPageConfigs
    /\ parentCache = EmptyCache
    /\ now = 0
    /\ last = IdleCall
    /\ pending = <<>>

SpecNonPage == InitNonPage /\ [][NextClient]_vars

\* The decision of the last client call matched a rule that declares a
\* condition and grants the write-class operation asked for.
ConditionalGrant ==
    /\ ClientCalled /\ last.checked /\ ~last.threw
    /\ last.rule # NoRule
    /\ config.rules[last.rule].condition # NoCondition
    /\ last.operation \in WriteClass
    /\ last.operation \in config.rules[last.rule].permissions

\* C29: under a matched rule that declares a condition and grants the
\* write-class operation, a call whose condition target is not a page (the
\* database of createDatabasePage, the block of appendBlockChildren and
\* deleteBlock) is denied and forwards nothing.
C29_NonPageTargetsDeny ==
    (ConditionalGrant /\ remote[last.node].kind # "page")
    => (~last.allowed /\ last.error = "PERMISSION_DENIED"
        /\ last.forwarded = <<>>)

C29_Witness ==
    /\ ConditionalGrant
    /\ last.call = "createDatabasePage"
    /\ remote[last.node].kind = "database"
    /\ idsMatch(last.targetId, config.rules[last.rule].databaseId)
    /\ ~last.allowed /\ last.forwarded = <<>>

====
